---- MODULE Spec2Model ----
(***************************************************************************)
(* RUN DAO: the quest lifecycle and settlement model.                      *)
(*                                                                         *)
(* On-chain part: QuestFactory.sol and EscrowVault.sol together with the   *)
(* ERC20 stake token they move.  One transaction is one step; a call that  *)
(* reverts changes nothing at all, and last is the last transaction that   *)
(* went through, with the events it emitted.  MedalNFT.sol is modelled the *)
(* same way, with medalLast as its last transaction.  A transfer or a mint *)
(* to a contract runs the recipient's callback, which may call back into   *)
(* the contracts before the outer call has finished.                       *)
(* Off-chain part: the API handler POST /api/quests/:questId/join over the *)
(* participations table; every await of the handler is a step of its own,  *)
(* so concurrent requests interleave.                                      *)
(*                                                                         *)
(* Timestamps that no operation reads (createdAt, joinedAt, lockedAt) and  *)
(* the free-text fields are not part of the state.                         *)
(***************************************************************************)
EXTENDS Integers, Sequences, FiniteSets, TLC

\* ---------------------------------------------------------------- bounds
MaxQuests == 1          \* quests that createQuest may create
MaxTime == 2            \* block.timestamp runs over 0..MaxTime
MaxDirect == 2          \* successful calls the other contract makes to the vault
MaxEmergency == 2       \* successful emergencyUpdateQuestStatus calls
MaxReqs == 3            \* concurrent API join requests
MaxApiQuests == 1       \* rows that POST /api/quests may insert
MaxMedals == 4          \* medals that mintQuestMedal may mint
MaxRarityInput == 120   \* _calculateRarity is tabulated for inputs 0..MaxRarityInput

\* ------------------------------------------------------------- addresses
Owner == "owner"                \* owner() of QuestFactory and EscrowVault
Users == {"A", "B"}             \* externally owned accounts that stake
Factory == "factory"            \* address of the QuestFactory contract
Other == "other"                \* another contract the owner may authorize
Vault == "vault"                \* address of the EscrowVault contract
Treasury == "treasury"          \* QuestFactory.daoTreasury
FeeRecipient == "feeRecipient"  \* EscrowVault.protocolFeeRecipient
ZeroAddr == "0x0"               \* address(0)
Token == "TKN"                  \* the ERC20 token enabled by setSupportedToken
Tokens == {Token}
supportedTokens == {Token}      \* QuestFactory.supportedTokens after deployment
TokenChoices == {Token, "UNSUPPORTED"}  \* _stakeToken of createQuest
Holders == Users \cup {Vault, Treasury, FeeRecipient}
QuestIds == 1..MaxQuests

\* ------------------------------------------------------ program constants
defaultSuccessRate == 8000
defaultDaoRate == 1000
defaultProtocolFeeRate == 1000
MAX_PROTOCOL_FEE == 2000
BasisPoints == 10000

QuestStatus == {"Draft", "Open", "Active", "Completed", "Cancelled"}

\* ---------------------------------------------------------- input values
InitialBalance == 20                    \* tokens each user holds at the start
StakeChoices == {0, 3, 10}              \* _stakeAmount of createQuest
SlotChoices == {0, 1, 2}                \* _maxSlots of createQuest
StartChoices == {0, 1}               \* _startTime of createQuest
DistanceChoices == {0, 5}               \* _distanceKm of createQuest
TimesChoices == {0, 3}                  \* _timesPerWeek of createQuest
Creators == {Owner, "A"}                       \* msg.sender of createQuest
Callers == Users \cup {Owner}           \* msg.sender of cancelQuest
OwnerOrNot == {Owner, "B"}              \* msg.sender of the onlyOwner calls
StatusChoices == QuestStatus     \* _status of emergencyUpdateQuestStatus
LoserLists == {<<>>, <<"B">>}           \* _losers of a direct distribute
DirectCallers == {Other, "B"}           \* msg.sender of a direct vault call
WinnerLists == {<<>>} \cup {<<a>> : a \in Users} \cup {<<a, b>> : a, b \in Users}
DirectTotals == {0, 20}                 \* _totalAmount of a direct distribute
DirectAmounts == {0, 10}                \* _amount of a direct deposit or refund
ApiUsers == {"user_1", "user_2"}        \* user_id of a join request
ApiSlotChoices == {0, 1, 2}             \* max_slots of POST /api/quests
ApiStakeChoices == {0, 10}              \* stake_amount of POST /api/quests
ApiStatusChoices == {"", "draft", "open"} \* status of POST /api/quests ("" when absent)
Reqs == 1..MaxReqs
\* <<_successRate, _daoRate, _protocolFeeRate>> of a direct distribute: the
\* defaults, a sum above 100%, and a fee above the cap with a sum of 100%
RateChoices == {<<8000, 1000, 1000>>, <<8000, 1000, 2000>>, <<7000, 0, 3000>>}

\* <<_participants, _amounts>> of a direct batchRefundParticipants
BatchChoices ==
    {<< <<"A">>, <<10>> >>, << <<"A", "B">>, <<10, 10>> >>,
     << <<"A", "B">>, <<10>> >>}

\* The calls that the recipient of a transfer makes from its callback, as
\* <<function, msg.sender, list, amount>>: the guarded functions of the vault
\* through an authorized contract, and cancelQuest and completeQuest.
HookCalls ==
    {<<"refundParticipant", Other, <<"A">>, 10>>,
     <<"batchRefundParticipants", Other, <<"A", "B">>, 10>>,
     <<"distributeQuestRewards", Other, <<"A">>, 20>>,
     <<"cancelQuest", "A", <<>>, 0>>,
     <<"completeQuest", Owner, <<"A">>, 0>>}


VARIABLES
    now,                \* block.timestamp
    quests,             \* QuestFactory.quests
    participations,     \* QuestFactory.participations
    questParticipants,  \* QuestFactory.questParticipants
    questCounter,       \* QuestFactory.questCounter
    escrowRecords,      \* EscrowVault.escrowRecords, keyed by (questId, participant)
    settlements,        \* EscrowVault.settlements
    balances,           \* EscrowVault.balances
    totalLocked,        \* EscrowVault.totalLocked
    authorizedContracts,\* EscrowVault.authorizedContracts
    tokenBal,           \* ERC20 balanceOf
    last,               \* the last transaction that did not revert
    dbQuests,           \* table quests: the rows in insertion order
    dbParticipations,   \* table participations: set of rows
    reqs,               \* the in-flight API join requests
    directCalls,        \* successful direct vault calls so far
    emergencyCalls,     \* successful emergency status updates so far
    medals,             \* MedalNFT.medals
    tokenOwner,         \* ERC721 _owners of MedalNFT; address(0) when no such token
    tokenIdCounter,     \* MedalNFT._tokenIdCounter
    userMedals,         \* MedalNFT.userMedals
    userMedalCounts,    \* MedalNFT.userMedalCounts
    medalLast           \* the last MedalNFT transaction that did not revert

chainVars == <<now, quests, participations, questParticipants, questCounter,
               escrowRecords, settlements, balances, totalLocked,
               authorizedContracts, tokenBal, last, directCalls, emergencyCalls>>
apiVars == <<dbQuests, dbParticipations, reqs>>
medalVars == <<medals, tokenOwner, tokenIdCounter, userMedals, userMedalCounts,
               medalLast>>
vars == <<now, quests, participations, questParticipants, questCounter,
          escrowRecords, settlements, balances, totalLocked,
          authorizedContracts, tokenBal, last, directCalls, emergencyCalls,
          dbQuests, dbParticipations, reqs,
          medals, tokenOwner, tokenIdCounter, userMedals, userMedalCounts,
          medalLast>>

\* ------------------------------------------------------- zero-valued data
NoQuest ==
    [id |-> 0, creator |-> ZeroAddr, startTime |-> 0, endTime |-> 0,
     distanceKm |-> 0, timesPerWeek |-> 0, stakeToken |-> ZeroAddr,
     stakeAmount |-> 0, maxSlots |-> 0, successRate |-> 0, daoRate |-> 0,
     protocolFeeRate |-> 0, status |-> "Draft", participantCount |-> 0]

NoParticipation == [participant |-> ZeroAddr, stakedAmount |-> 0, isActive |-> FALSE]

NoRecord == [questId |-> 0, participant |-> ZeroAddr, token |-> ZeroAddr,
             amount |-> 0, isLocked |-> FALSE]

NoSettlement ==
    [questId |-> 0, token |-> ZeroAddr, totalAmount |-> 0, winnersCount |-> 0,
     losersCount |-> 0, winnersReward |-> 0, daoAmount |-> 0, protocolFee |-> 0,
     settledAt |-> 0]

NoCall == [op |-> "init", sender |-> ZeroAddr, q |-> 0, ok |-> TRUE,
           winners |-> <<>>, losers |-> <<>>, total |-> 0, paid |-> <<>>,
           nestedOp |-> "none", nested |-> "none", reentered |-> FALSE]

\* no call is made by the recipient of a transfer
NoHook == [op |-> "none", sender |-> ZeroAddr, q |-> 0, list |-> <<>>,
           amount |-> 0, at |-> 0, auth |-> {}, time |-> 0]

NoRequest == [pc |-> "idle", questId |-> 0, user_id |-> "", status |-> 0]

\* The EVM state a transaction works on; ok turns FALSE when it reverts.
\* entered is the _status of the vault's ReentrancyGuard; hook is the call
\* that the recipient of a token transfer makes from its callback, inCallback
\* holds while that call runs, nestedOp names it, nested tells how it ended
\* and reentered whether a guarded function of the vault was let in during it.
EvmState ==
    [quests |-> quests, participations |-> participations,
     questParticipants |-> questParticipants, questCounter |-> questCounter,
     escrowRecords |-> escrowRecords, settlements |-> settlements,
     balances |-> balances, totalLocked |-> totalLocked,
     tokenBal |-> tokenBal, ok |-> TRUE, paid |-> <<>>,
     losers |-> <<>>, total |-> 0,
     entered |-> FALSE, hook |-> NoHook, inCallback |-> FALSE,
     nestedOp |-> "none", nested |-> "none", reentered |-> FALSE]

Revert(s) == [s EXCEPT !.ok = FALSE]

\* escrowRecords[keccak256(questId, participant)]; an untouched slot is zero
recordOf(s, q, p) ==
    IF q \in QuestIds /\ p \in Users THEN s.escrowRecords[q][p] ELSE NoRecord

\* -------------------------------------------------------- ReentrancyGuard
\* a nonReentrant modifier that lets every call in
nonReentrant_NoCheck(s) == TRUE

\* the modifier nonReentrant: the call is let in when the contract is not
\* already executing one of its guarded functions
nonReentrant(s) == ~s.entered

\* the modifier once the call is let in: _status = _ENTERED
enter(s) == [s EXCEPT !.entered = TRUE, !.reentered = @ \/ s.inCallback]

\* the end of the modifier: _status = _NOT_ENTERED
leave(s) == [s EXCEPT !.entered = FALSE]

\* ----------------------------------------------------------------- ERC20
\* A transfer hands control to its recipient, whose code may call back into
\* the contracts: the operators on that cycle are declared before their use.
RECURSIVE tokensReceived(_)
RECURSIVE safeTransfer(_, _, _, _)
RECURSIVE transferFromEscrow(_, _, _, _)
RECURSIVE payWinners_Undivided(_, _, _, _)
RECURSIVE payWinners(_, _, _, _)
RECURSIVE payDao(_, _, _, _)
RECURSIVE payFee(_, _, _)
RECURSIVE distributeQuestRewards(_, _, _, _, _, _, _, _, _, _, _, _, _)
RECURSIVE refundParticipant(_, _, _, _, _, _, _)
RECURSIVE refundEntry(_, _, _, _, _)
RECURSIVE refundEntries(_, _, _, _, _)
RECURSIVE batchRefundParticipants(_, _, _, _, _, _, _)
RECURSIVE refundAll(_, _, _, _)
RECURSIVE cancelQuest(_, _, _, _, _)
RECURSIVE completeQuest(_, _, _, _, _, _)

\* The code of the recipient that a token with transfer hooks runs during
\* the transfer numbered hook.at of the transaction: it makes the call
\* hook.op and catches its failure.  (A recipient that lets the failure
\* fail the transfer reverts the whole transaction, which then leaves every
\* variable as it was.)
tokensReceived(s) ==
    LET h == s.hook
        s0 == [s EXCEPT !.hook = NoHook, !.inCallback = TRUE, !.nestedOp = h.op]
        r == CASE h.op = "refundParticipant" ->
                     refundParticipant(s0, h.auth, h.sender, h.q, h.list[1],
                                       Token, h.amount)
               [] h.op = "batchRefundParticipants" ->
                     batchRefundParticipants(s0, h.auth, h.sender, h.q, h.list, Token,
                                             [i \in 1..Len(h.list) |-> h.amount])
               [] h.op = "distributeQuestRewards" ->
                     distributeQuestRewards(s0, h.auth, h.sender, h.q, Token,
                                            h.amount, h.list, <<>>,
                                            defaultSuccessRate, defaultDaoRate,
                                            defaultProtocolFeeRate, Treasury, h.time)
               [] h.op = "cancelQuest" ->
                     cancelQuest(s0, h.auth, h.sender, h.q, h.time)
               [] h.op = "completeQuest" ->
                     completeQuest(s0, h.auth, h.sender, h.q, h.list, h.time)
    IN  IF ~s.ok THEN s
        ELSE IF h.op = "none" \/ Len(s.paid) # h.at THEN s
        ELSE IF r.ok THEN [r EXCEPT !.nested = "done", !.inCallback = FALSE]
        ELSE [s0 EXCEPT !.nested = "rejected", !.inCallback = FALSE]

\* IERC20.safeTransfer from the vault: reverts on insufficient balance
safeTransfer(s, token, to, amount) ==
    IF ~s.ok THEN s
    ELSE IF token \notin Tokens \/ to \notin Holders THEN Revert(s)
    ELSE IF s.tokenBal[token][Vault] < amount THEN Revert(s)
    ELSE tokensReceived([s EXCEPT !.tokenBal[token][Vault] = @ - amount,
                                  !.tokenBal[token][to] = @ + amount,
                                  !.paid = Append(@, <<to, amount>>)])

\* IERC20.safeTransferFrom(from, vault, amount); the allowance is granted
safeTransferFrom(s, token, from, amount) ==
    IF ~s.ok THEN s
    ELSE IF token \notin Tokens \/ from \notin Holders THEN Revert(s)
    ELSE IF s.tokenBal[token][from] < amount THEN Revert(s)
    ELSE [s EXCEPT !.tokenBal[token][from] = @ - amount,
                   !.tokenBal[token][Vault] = @ + amount]

\* ----------------------------------------------------------- EscrowVault
\* EscrowVault.depositForQuest
depositForQuest(s, auth, sender, q, p, token, amount) ==
    IF sender \notin auth THEN Revert(s)
    ELSE IF ~(amount > 0) THEN Revert(s)
    ELSE [s EXCEPT !.escrowRecords[q][p] =
                       [questId |-> q, participant |-> p, token |-> token,
                        amount |-> amount, isLocked |-> TRUE],
                   !.balances[token][p] = @ + amount,
                   !.totalLocked[token] = @ + amount]

\* EscrowVault._transferFromEscrow
transferFromEscrow(s, token, to, amount) ==
    IF ~s.ok THEN s
    ELSE IF to = ZeroAddr THEN Revert(s)
    ELSE IF ~(amount > 0) THEN Revert(s)
    ELSE safeTransfer(s, token, to, amount)

\* the winners loop paying every winner the whole winnersReward
payWinners_Undivided(s, token, winners, rewardPerWinner) ==
    IF winners = <<>> THEN s
    ELSE payWinners_Undivided(
            transferFromEscrow(s, token, Head(winners),
                               rewardPerWinner * Len(winners)),
            token, Tail(winners), rewardPerWinner)

\* the loop of distributeQuestRewards that pays rewardPerWinner to each winner
payWinners(s, token, winners, rewardPerWinner) ==
    IF winners = <<>> THEN s
    ELSE payWinners(transferFromEscrow(s, token, Head(winners), rewardPerWinner),
                    token, Tail(winners), rewardPerWinner)

\* the unlocking of a record that leaves totalLocked as it was
unlockRecord_KeepsTotal(s, q, token, p) ==
    LET record == recordOf(s, q, p) IN
    IF ~s.ok THEN s
    ELSE IF ~record.isLocked THEN s
    ELSE IF s.balances[token][p] < record.amount THEN Revert(s)
    ELSE [s EXCEPT !.balances[token][p] = @ - record.amount,
                   !.escrowRecords[q][p].isLocked = FALSE]

\* one iteration of the last loop of _updateLockedAmountsAfterSettlement;
\* the subtractions are checked (solidity 0.8) and the amount stays in the record
unlockRecord(s, q, token, p) ==
    LET record == recordOf(s, q, p) IN
    IF ~s.ok THEN s
    ELSE IF ~record.isLocked THEN s
    ELSE IF s.balances[token][p] < record.amount THEN Revert(s)
    ELSE IF s.totalLocked[token] < record.amount THEN Revert(s)
    ELSE [s EXCEPT !.balances[token][p] = @ - record.amount,
                   !.totalLocked[token] = @ - record.amount,
                   !.escrowRecords[q][p].isLocked = FALSE]

RECURSIVE unlockAll(_, _, _, _)
unlockAll(s, q, token, allParticipants) ==
    IF allParticipants = <<>> THEN s
    ELSE unlockAll(unlockRecord(s, q, token, Head(allParticipants)),
                   q, token, Tail(allParticipants))

\* EscrowVault._updateLockedAmountsAfterSettlement
updateLockedAmountsAfterSettlement(s, q, token, winners, losers) ==
    unlockAll(s, q, token, winners \o losers)

\* distributeQuestRewards without its transfer to the DAO treasury
payDao_Skipped(s, token, daoAmount, daoTreasury) == s

\* the DAO transfer of distributeQuestRewards
payDao(s, token, daoAmount, daoTreasury) ==
    IF ~s.ok THEN s
    ELSE IF daoAmount > 0 /\ daoTreasury # ZeroAddr
         THEN safeTransfer(s, token, daoTreasury, daoAmount)
         ELSE s

\* the protocol fee transfer of distributeQuestRewards
payFee(s, token, protocolFee) ==
    IF ~s.ok THEN s
    ELSE IF protocolFee > 0 /\ FeeRecipient # ZeroAddr
         THEN safeTransfer(s, token, FeeRecipient, protocolFee)
         ELSE s

\* the Settlement that distributeQuestRewards stores
recordSettlement(s, q, token, totalAmount, winners, losers, winnersReward, daoAmount, protocolFee, time) ==
    IF ~s.ok THEN s
    ELSE [s EXCEPT !.settlements[q] =
            [questId |-> q, token |-> token, totalAmount |-> totalAmount,
             winnersCount |-> Len(winners), losersCount |-> Len(losers),
             winnersReward |-> winnersReward, daoAmount |-> daoAmount,
             protocolFee |-> protocolFee, settledAt |-> time]]

\* distributeQuestRewards without its "Rates must sum to 100%" check
distributeAllowed_NoSumCheck(auth, sender, totalAmount, successRate, daoRate, protocolFeeRate) ==
    /\ sender \in auth
    /\ protocolFeeRate <= MAX_PROTOCOL_FEE
    /\ totalAmount > 0

\* the require statements of distributeQuestRewards
distributeAllowed(auth, sender, totalAmount, successRate, daoRate, protocolFeeRate) ==
    /\ sender \in auth
    /\ successRate + daoRate + protocolFeeRate = BasisPoints
    /\ protocolFeeRate <= MAX_PROTOCOL_FEE
    /\ totalAmount > 0

\* EscrowVault.distributeQuestRewards
distributeQuestRewards(s, auth, sender, q, token, totalAmount, winners, losers, successRate, daoRate, protocolFeeRate, daoTreasury, time) ==
    LET winnersReward == (totalAmount * successRate) \div BasisPoints
        daoAmount == (totalAmount * daoRate) \div BasisPoints
        protocolFee == (totalAmount * protocolFeeRate) \div BasisPoints
        s0 == enter(s)
        s1 == IF Len(winners) > 0 /\ winnersReward > 0
              THEN payWinners(s0, token, winners, winnersReward \div Len(winners))
              ELSE s0
        s2 == payDao(s1, token, daoAmount, daoTreasury)
        s3 == payFee(s2, token, protocolFee)
        s4 == updateLockedAmountsAfterSettlement(s3, q, token, winners, losers)
        s5 == recordSettlement(s4, q, token, totalAmount, winners, losers,
                               winnersReward, daoAmount, protocolFee, time)
    IN  IF ~s.ok THEN s
        ELSE IF ~nonReentrant(s) THEN Revert(s)
        ELSE IF ~distributeAllowed(auth, sender, totalAmount,
                                   successRate, daoRate, protocolFeeRate)
             THEN Revert(s)
        ELSE leave(s5)

\* refundParticipant without its "Funds not locked" check
refundAllowed_NoLockCheck(s, auth, sender, q, p, amount) ==
    /\ sender \in auth
    /\ recordOf(s, q, p).amount >= amount

\* the require statements of refundParticipant
refundAllowed(s, auth, sender, q, p, amount) ==
    /\ sender \in auth
    /\ recordOf(s, q, p).isLocked
    /\ recordOf(s, q, p).amount >= amount

\* EscrowVault.refundParticipant
refundParticipant(s, auth, sender, q, p, token, amount) ==
    LET record == recordOf(s, q, p)
        s1 == safeTransfer(
                 [enter(s) EXCEPT
                           !.escrowRecords[q][p].amount = @ - amount,
                           !.escrowRecords[q][p].isLocked = (record.amount - amount > 0),
                           !.balances[token][p] = @ - amount,
                           !.totalLocked[token] = @ - amount],
                 token, p, amount)
    IN  IF ~s.ok THEN s
        ELSE IF ~nonReentrant(s) THEN Revert(s)
        ELSE IF ~refundAllowed(s, auth, sender, q, p, amount) THEN Revert(s)
        ELSE IF s.balances[token][p] < amount THEN Revert(s)
        ELSE IF s.totalLocked[token] < amount THEN Revert(s)
        ELSE leave(s1)

\* one iteration of the loop of batchRefundParticipants: an entry whose record
\* is not locked or holds less than the amount is passed over
refundEntry(s, q, p, token, amount) ==
    LET record == recordOf(s, q, p) IN
    IF ~s.ok THEN s
    ELSE IF ~(record.isLocked /\ record.amount >= amount) THEN s
    ELSE IF s.balances[token][p] < amount THEN Revert(s)
    ELSE IF s.totalLocked[token] < amount THEN Revert(s)
    ELSE safeTransfer(
            [s EXCEPT !.escrowRecords[q][p].amount = @ - amount,
                      !.escrowRecords[q][p].isLocked = (record.amount - amount > 0),
                      !.balances[token][p] = @ - amount,
                      !.totalLocked[token] = @ - amount],
            token, p, amount)

refundEntries(s, q, participants, token, amounts) ==
    IF participants = <<>> THEN s
    ELSE refundEntries(refundEntry(s, q, Head(participants), token, Head(amounts)),
                       q, Tail(participants), token, Tail(amounts))

\* EscrowVault.batchRefundParticipants
batchRefundParticipants(s, auth, sender, q, participants, token, amounts) ==
    IF ~s.ok THEN s
    ELSE IF ~nonReentrant(s) THEN Revert(s)
    ELSE IF sender \notin auth THEN Revert(s)
    ELSE IF Len(participants) # Len(amounts) THEN Revert(s)
    ELSE leave(refundEntries(enter(s), q, participants, token, amounts))

\* ---------------------------------------------------------- QuestFactory
\* the require statements of createQuest
createAllowed(time, startTime, endTime, distanceKm, timesPerWeek, stakeToken, stakeAmount, maxSlots) ==
    /\ startTime > time
    /\ endTime > startTime
    /\ distanceKm > 0
    /\ timesPerWeek > 0
    /\ stakeAmount > 0
    /\ maxSlots > 0
    /\ stakeToken \in supportedTokens

\* QuestFactory.createQuest
createQuest(s, sender, time, startTime, endTime, distanceKm, timesPerWeek, stakeToken, stakeAmount, maxSlots) ==
    LET questId == s.questCounter + 1 IN
    IF ~createAllowed(time, startTime, endTime, distanceKm, timesPerWeek,
                      stakeToken, stakeAmount, maxSlots)
    THEN Revert(s)
    ELSE [s EXCEPT !.questCounter = questId,
                   !.quests[questId] =
                       [id |-> questId, creator |-> sender,
                        startTime |-> startTime, endTime |-> endTime,
                        distanceKm |-> distanceKm, timesPerWeek |-> timesPerWeek,
                        stakeToken |-> stakeToken, stakeAmount |-> stakeAmount,
                        maxSlots |-> maxSlots,
                        successRate |-> defaultSuccessRate,
                        daoRate |-> defaultDaoRate,
                        protocolFeeRate |-> defaultProtocolFeeRate,
                        status |-> "Open", participantCount |-> 0]]

\* QuestFactory._changeQuestStatus
changeQuestStatus(s, q, newStatus) ==
    IF ~s.ok THEN s ELSE [s EXCEPT !.quests[q].status = newStatus]

\* joinQuest without its "Quest is full" check
joinAllowed_NoSlotCheck(s, sender, q, time) ==
    LET quest == s.quests[q] IN
    /\ quest.id # 0
    /\ quest.status = "Open"
    /\ time < quest.startTime
    /\ ~s.participations[q][sender].isActive

\* the require statements of joinQuest
joinAllowed(s, sender, q, time) ==
    LET quest == s.quests[q] IN
    /\ quest.id # 0
    /\ quest.status = "Open"
    /\ time < quest.startTime
    /\ quest.participantCount < quest.maxSlots
    /\ ~s.participations[q][sender].isActive

\* the tail of joinQuest: "auto-activate quest if it reaches start time"
autoActivate(s, q, time) ==
    IF ~s.ok THEN s
    ELSE IF time >= s.quests[q].startTime /\ s.quests[q].status = "Open"
         THEN changeQuestStatus(s, q, "Active")
         ELSE s

\* QuestFactory.joinQuest
joinQuest(s, sender, q, time) ==
    LET quest == s.quests[q]
        s1 == safeTransferFrom(s, quest.stakeToken, sender, quest.stakeAmount)
        s2 == [s1 EXCEPT !.participations[q][sender] =
                             [participant |-> sender,
                              stakedAmount |-> quest.stakeAmount,
                              isActive |-> TRUE],
                         !.questParticipants[q] = Append(@, sender),
                         !.quests[q].participantCount = @ + 1]
    IN  IF ~joinAllowed(s, sender, q, time) THEN Revert(s)
        ELSE IF ~s1.ok THEN s1
        ELSE autoActivate(s2, q, time)

\* is a among the entries of the list?
isWinner(a, winners) == \E j \in 1..Len(winners) : winners[j] = a

\* the participants that the loop of completeQuest finds not to be winners
RECURSIVE nonWinners(_, _)
nonWinners(allParticipants, winners) ==
    IF allParticipants = <<>> THEN <<>>
    ELSE IF isWinner(Head(allParticipants), winners)
         THEN nonWinners(Tail(allParticipants), winners)
         ELSE <<Head(allParticipants)>> \o nonWinners(Tail(allParticipants), winners)

\* completeQuest without its "Quest not ended yet" check
completeAllowed_NoEndCheck(s, sender, q, time) ==
    LET quest == s.quests[q] IN
    /\ sender = Owner
    /\ quest.id # 0
    /\ quest.status = "Active"

\* the require statements of completeQuest (with the onlyOwner modifier)
completeAllowed(s, sender, q, time) ==
    LET quest == s.quests[q] IN
    /\ sender = Owner
    /\ quest.id # 0
    /\ quest.status = "Active"
    /\ time >= quest.endTime

\* QuestFactory.completeQuest.  The losers array has
\* allParticipants.length - _winners.length slots: the subtraction reverts
\* when negative, a write past its end reverts, an unwritten slot is address(0).
completeQuest(s, auth, sender, q, winners, time) ==
    LET quest == s.quests[q]
        allParticipants == s.questParticipants[q]
        totalStaked == quest.participantCount * quest.stakeAmount
        slots == Len(allParticipants) - Len(winners)
        found == nonWinners(allParticipants, winners)
        losers == found \o [i \in 1..(slots - Len(found)) |-> ZeroAddr]
        s1 == distributeQuestRewards(s, auth, Factory, q, quest.stakeToken,
                                     totalStaked, winners, losers,
                                     quest.successRate, quest.daoRate,
                                     quest.protocolFeeRate, Treasury, time)
        s2 == changeQuestStatus(s1, q, "Completed")
    IN  IF ~completeAllowed(s, sender, q, time) THEN Revert(s)
        ELSE IF slots < 0 THEN Revert(s)
        ELSE IF Len(found) > slots THEN Revert(s)
        ELSE IF ~s2.ok THEN s2
        ELSE [s2 EXCEPT !.losers = losers, !.total = totalStaked]

\* cancelQuest without its "Not authorized" check
cancelAllowed_AnyCaller(s, sender, q, time) ==
    LET quest == s.quests[q] IN
    /\ quest.id # 0
    /\ quest.status = "Open"
    /\ time < quest.startTime

\* the require statements of cancelQuest
cancelAllowed(s, sender, q, time) ==
    LET quest == s.quests[q] IN
    /\ quest.id # 0
    /\ (sender = quest.creator \/ sender = Owner)
    /\ quest.status = "Open"
    /\ time < quest.startTime

\* the refund loop of cancelQuest
refundAll(s, auth, q, participants) ==
    IF participants = <<>> \/ ~s.ok THEN s
    ELSE LET participant == Head(participants)
             s1 == refundParticipant(s, auth, Factory, q, participant,
                                     s.quests[q].stakeToken, s.quests[q].stakeAmount)
         IN  IF s.participations[q][participant].isActive
             THEN IF ~s1.ok THEN s1
                  ELSE refundAll([s1 EXCEPT !.participations[q][participant].isActive = FALSE],
                                 auth, q, Tail(participants))
             ELSE refundAll(s, auth, q, Tail(participants))

\* QuestFactory.cancelQuest
cancelQuest(s, auth, sender, q, time) ==
    IF ~cancelAllowed(s, sender, q, time) THEN Revert(s)
    ELSE changeQuestStatus(refundAll(s, auth, q, s.questParticipants[q]), q, "Cancelled")

\* QuestFactory.emergencyUpdateQuestStatus (onlyOwner)
emergencyUpdateQuestStatus(s, sender, q, status) ==
    IF sender # Owner THEN Revert(s) ELSE changeQuestStatus(s, q, status)

\* -------------------------------------------------------------- MedalNFT
MedalType == {"Gold", "Grey", "Special", "Seasonal"}

\* enum Rarity, by its value
Common == 0
Uncommon == 1
Rare == 2
Epic == 3
Legendary == 4

TokenIds == 1..(MaxMedals + 1)
authorizedMinters == {Factory}             \* set by setAuthorizedMinter at deployment
MintSenders == {Factory, "B"}              \* msg.sender of mintQuestMedal
UpgradeCallers == Users                    \* msg.sender of upgradeMedals

\* <<_recipient, _medalType, _completedSessions, _distanceKm, _totalParticipants>>
\* of mintQuestMedal
MintChoices ==
    {<<"A", "Grey", n, 3 * n, 3>> : n \in {2, 3, 4, 5}}
       \cup {<<"B", "Grey", 3, 9, 3>>, <<ZeroAddr, "Grey", 3, 9, 3>>}
       \cup {<<"A", "Gold", 3, 9, n>> : n \in {19, 100}}
       \cup {<<"A", "Special", 3, 9, 3>>, <<"A", "Seasonal", 5, 15, 3>>}

\* _sourceTokenIds of upgradeMedals: the increasing lists of two to four
\* minted ids, a list out of order and lists that name an id twice
SourceLists ==
    {<<a, b>> : a, b \in {t \in 1..MaxMedals : t <= 2}}
       \cup {l \in [1..3 -> 1..MaxMedals] : l[1] < l[2] /\ l[2] < l[3]}
       \cup {l \in [1..4 -> 1..MaxMedals] : l[1] < l[2] /\ l[2] < l[3] /\ l[3] < l[4]}
       \cup {<<3, 2, 1>>, <<1, 2, 1>>, <<1, 2, 2>>}

NoMedal ==
    [tokenId |-> 0, recipient |-> ZeroAddr, medalType |-> "Gold",
     rarity |-> Common, distanceKm |-> 0, completedSessions |-> 0,
     totalParticipants |-> 0, isUpgradeable |-> FALSE, upgradeLevel |-> 0,
     sourceTokenIds |-> <<>>]

NoMedalCall == [op |-> "init", sender |-> ZeroAddr, sources |-> <<>>, tokenId |-> 0,
                nestedOp |-> "none", nested |-> "none", reentered |-> FALSE]

\* no call is made by the recipient of a medal
NoMedalHook == [op |-> "none", sender |-> ZeroAddr, sources |-> <<>>]

\* The calls that the recipient of a medal makes from onERC721Received, as
\* <<function, msg.sender, _sourceTokenIds>>: an upgrade of medals it holds
\* and a mint through the authorized minter.
MedalHookCalls ==
    {<<"upgradeMedals", "A", <<1, 2, 3>> >>,
     <<"upgradeMedals", "A", <<2, 3, 4>> >>,
     <<"mintQuestMedal", Factory, <<>> >>}

MedalHookChoices ==
    {[op |-> c[1], sender |-> c[2], sources |-> c[3]] : c \in MedalHookCalls}

\* The MedalNFT storage a transaction works on; ok turns FALSE when it reverts.
\* entered, hook, inCallback, nested and reentered are as in EvmState, for the
\* ReentrancyGuard of MedalNFT and the onERC721Received of the recipient.
MedalState ==
    [medals |-> medals, tokenOwner |-> tokenOwner,
     tokenIdCounter |-> tokenIdCounter, userMedals |-> userMedals,
     userMedalCounts |-> userMedalCounts, ok |-> TRUE,
     entered |-> FALSE, hook |-> NoMedalHook, inCallback |-> FALSE,
     nestedOp |-> "none", nested |-> "none", reentered |-> FALSE]

\* MedalNFT._calculateRarity without its tables
calculateRarity_AlwaysCommon(medalType, completedSessions, totalParticipants) == Common

\* MedalNFT._calculateRarity
calculateRarity(medalType, completedSessions, totalParticipants) ==
    IF medalType = "Gold"
    THEN IF totalParticipants >= 100 THEN Legendary
         ELSE IF totalParticipants >= 50 THEN Epic
         ELSE IF totalParticipants >= 20 THEN Rare
         ELSE Uncommon
    ELSE IF medalType = "Grey"
    THEN IF completedSessions >= 5 THEN Uncommon ELSE Common
    ELSE Common

\* MedalNFT.upgradeRequirements as the constructor fills it; an entry never
\* written reads as 0
upgradeRequirements(medalType, count) ==
    IF medalType = "Grey" /\ count = 3 THEN Uncommon
    ELSE IF medalType = "Grey" /\ count = 5 THEN Rare
    ELSE IF medalType = "Gold" /\ count = 10 THEN Epic
    ELSE 0

\* ERC721._exists
exists(s, tokenId) == tokenId \in TokenIds /\ s.tokenOwner[tokenId] # ZeroAddr

\* ERC721._burn that leaves the token in place
burn_Skipped(s, tokenId) == s

\* ERC721._burn: the token has no owner any more; medals[tokenId] is not cleared
burn(s, tokenId) == [s EXCEPT !.tokenOwner[tokenId] = ZeroAddr]

\* ERC721._safeMint to an externally owned account
RECURSIVE onERC721Received(_)
RECURSIVE safeMint(_, _, _)
RECURSIVE mintQuestMedal(_, _, _, _, _, _, _)
RECURSIVE upgradeMedals(_, _, _)

\* The onERC721Received of a recipient that is a contract: it makes the call
\* hook.op and catches its failure.
onERC721Received(s) ==
    LET h == s.hook
        s0 == [s EXCEPT !.hook = NoMedalHook, !.inCallback = TRUE, !.nestedOp = h.op]
        r == CASE h.op = "upgradeMedals" -> upgradeMedals(s0, h.sender, h.sources)
               [] h.op = "mintQuestMedal" ->
                     mintQuestMedal(s0, h.sender, "A", "Grey", 9, 3, 3)
    IN  IF h.op = "none" THEN s
        ELSE IF r.ok THEN [r EXCEPT !.nested = "done", !.inCallback = FALSE]
        ELSE [s0 EXCEPT !.nested = "rejected", !.inCallback = FALSE]

\* ERC721._safeMint
safeMint(s, to, tokenId) == onERC721Received([s EXCEPT !.tokenOwner[tokenId] = to])

\* a mint that makes every medal upgradeable
upgradeableAtMint_Always(medalType) == TRUE

\* the isUpgradeable flag that mintQuestMedal writes into the new medal
upgradeableAtMint(medalType) == medalType = "Grey"

\* MedalNFT.mintQuestMedal
mintQuestMedal(s, sender, recipient, medalType, distanceKm, completedSessions, totalParticipants) ==
    LET tokenId == s.tokenIdCounter + 1
        rarity == calculateRarity(medalType, completedSessions, totalParticipants)
        s1 == [enter(s) EXCEPT
                        !.tokenIdCounter = tokenId,
                        !.medals[tokenId] =
                           [tokenId |-> tokenId, recipient |-> recipient,
                            medalType |-> medalType, rarity |-> rarity,
                            distanceKm |-> distanceKm,
                            completedSessions |-> completedSessions,
                            totalParticipants |-> totalParticipants,
                            isUpgradeable |-> upgradeableAtMint(medalType),
                            upgradeLevel |-> 0, sourceTokenIds |-> <<>>]]
        s2 == safeMint(s1, recipient, tokenId)
    IN  IF ~nonReentrant(s) THEN [s EXCEPT !.ok = FALSE]
        ELSE IF sender \notin authorizedMinters THEN [s EXCEPT !.ok = FALSE]
        ELSE IF recipient = ZeroAddr THEN [s EXCEPT !.ok = FALSE]
        ELSE IF ~s2.ok THEN s2
        ELSE leave([s2 EXCEPT !.userMedals[recipient] = Append(@, tokenId),
                              !.userMedalCounts[recipient][medalType] = @ + 1])

\* what the loop of upgradeMedals carries from one source to the next
UpgradeLoop(s) == [s |-> s, sourceType |-> "Gold", totalDistance |-> 0, totalSessions |-> 0]

\* one iteration of the loop of upgradeMedals, for the source at position i
upgradeSource(acc, caller, tokenId, i) ==
    LET s == acc.s
        medal == s.medals[tokenId]
        sourceType == IF i = 1 THEN medal.medalType ELSE acc.sourceType
    IN  IF ~s.ok THEN acc
        ELSE IF ~exists(s, tokenId) THEN [acc EXCEPT !.s.ok = FALSE]
        ELSE IF s.tokenOwner[tokenId] # caller THEN [acc EXCEPT !.s.ok = FALSE]
        ELSE IF ~medal.isUpgradeable THEN [acc EXCEPT !.s.ok = FALSE]
        ELSE IF medal.medalType # sourceType THEN [acc EXCEPT !.s.ok = FALSE]
        ELSE [s |-> burn(s, tokenId), sourceType |-> sourceType,
              totalDistance |-> acc.totalDistance + medal.distanceKm,
              totalSessions |-> acc.totalSessions + medal.completedSessions]

\* the loop of upgradeMedals over the sources from position i on
RECURSIVE upgradeSources(_, _, _, _)
upgradeSources(acc, caller, sourceTokenIds, i) ==
    IF i > Len(sourceTokenIds) THEN acc
    ELSE upgradeSources(upgradeSource(acc, caller, sourceTokenIds[i], i),
                        caller, sourceTokenIds, i + 1)

\* MedalNFT.upgradeMedals
upgradeMedals(s, caller, sourceTokenIds) ==
    LET acc == upgradeSources(UpgradeLoop(enter(s)), caller, sourceTokenIds, 1)
        s1 == acc.s
        newTokenId == s1.tokenIdCounter + 1
        newRarity == upgradeRequirements(acc.sourceType, Len(sourceTokenIds))
        s2 == [s1 EXCEPT !.tokenIdCounter = newTokenId,
                         !.medals[newTokenId] =
                            [tokenId |-> newTokenId, recipient |-> caller,
                             medalType |-> "Special", rarity |-> newRarity,
                             distanceKm |-> acc.totalDistance,
                             completedSessions |-> acc.totalSessions,
                             totalParticipants |-> Len(sourceTokenIds),
                             isUpgradeable |-> FALSE, upgradeLevel |-> 1,
                             sourceTokenIds |-> sourceTokenIds]]
        s3 == safeMint(s2, caller, newTokenId)
    IN  IF ~nonReentrant(s) THEN [s EXCEPT !.ok = FALSE]
        ELSE IF ~(Len(sourceTokenIds) >= 3) THEN [s EXCEPT !.ok = FALSE]
        ELSE IF ~s1.ok THEN s1
        ELSE IF ~s3.ok THEN s3
        ELSE leave([s3 EXCEPT !.userMedals[caller] = Append(@, newTokenId),
                              !.userMedalCounts[caller]["Special"] = @ + 1])

\* a transaction that keeps what it wrote before it reverted
afterCall_KeepsPartial(s, r) == [r EXCEPT !.ok = TRUE]

\* the storage after a transaction that started in s and computed r: a
\* revert restores all of s
afterCall(s, r) == IF r.ok THEN r ELSE s

\* ------------------------------------------------------------ transactions
Call(op, sender, q, winners) ==
    [op |-> op, sender |-> sender, q |-> q, ok |-> TRUE, winners |-> winners,
     losers |-> <<>>, total |-> 0, paid |-> <<>>,
     nestedOp |-> "none", nested |-> "none", reentered |-> FALSE]

\* A transaction commits the state it computed, or reverts as a whole and
\* leaves every variable as it was.  direct and emergency count the calls
\* that the bounds MaxDirect and MaxEmergency limit.
Commit(r, call, direct, emergency) ==
    IF r.ok
    THEN /\ quests' = r.quests
         /\ participations' = r.participations
         /\ questParticipants' = r.questParticipants
         /\ questCounter' = r.questCounter
         /\ escrowRecords' = r.escrowRecords
         /\ settlements' = r.settlements
         /\ balances' = r.balances
         /\ totalLocked' = r.totalLocked
         /\ tokenBal' = r.tokenBal
         /\ last' = [call EXCEPT !.paid = r.paid, !.losers = r.losers,
                                 !.total = r.total, !.nestedOp = r.nestedOp,
                                 !.nested = r.nested,
                                 !.reentered = r.reentered]
         /\ directCalls' = directCalls + direct
         /\ emergencyCalls' = emergencyCalls + emergency
         /\ UNCHANGED <<now, authorizedContracts>>
    ELSE UNCHANGED chainVars

\* The two parts share no state and no code links them: a behaviour runs the
\* contracts or the API, and interleaving the two would add nothing.  Every
\* contract step requires the API untouched, every API step the contracts.
ChainQuiet == last = NoCall
ApiQuiet == dbQuests = <<>> /\ \A r \in Reqs : reqs[r].pc = "idle"
MedalQuiet == medalLast = NoMedalCall

Init ==
    /\ now = 0
    /\ quests = [q \in QuestIds |-> NoQuest]
    /\ participations = [q \in QuestIds |-> [a \in Users |-> NoParticipation]]
    /\ questParticipants = [q \in QuestIds |-> <<>>]
    /\ questCounter = 0
    /\ escrowRecords = [q \in QuestIds |-> [a \in Users |-> NoRecord]]
    /\ settlements = [q \in QuestIds |-> NoSettlement]
    /\ balances = [t \in Tokens |-> [a \in Users |-> 0]]
    /\ totalLocked = [t \in Tokens |-> 0]
    /\ authorizedContracts = {Factory, Other}
    /\ tokenBal = [t \in Tokens |->
                     [h \in Holders |-> IF h \in Users THEN InitialBalance ELSE 0]]
    /\ last = NoCall
    /\ directCalls = 0
    /\ emergencyCalls = 0
    /\ dbQuests = <<>>
    /\ dbParticipations = {}
    /\ reqs = [r \in Reqs |-> NoRequest]
    /\ medals = [t \in TokenIds |-> NoMedal]
    /\ tokenOwner = [t \in TokenIds |-> ZeroAddr]
    /\ tokenIdCounter = 0
    /\ userMedals = [a \in Users |-> <<>>]
    /\ userMedalCounts = [a \in Users |-> [m \in MedalType |-> 0]]
    /\ medalLast = NoMedalCall

\* the block timestamp advances
Tick ==
    /\ ApiQuiet
    /\ MedalQuiet
    /\ now < MaxTime
    /\ now' = now + 1
    /\ last' = Call("tick", ZeroAddr, 0, <<>>)
    /\ UNCHANGED <<quests, participations, questParticipants, questCounter,
                   escrowRecords, settlements, balances, totalLocked,
                   authorizedContracts, tokenBal, directCalls, emergencyCalls>>
    /\ UNCHANGED apiVars
    /\ UNCHANGED medalVars

CreateQuest ==
    /\ ApiQuiet
    /\ MedalQuiet
    /\ questCounter < MaxQuests
    /\ \E sender \in Creators, startTime \in StartChoices, duration \in {0, 1},
          distanceKm \in DistanceChoices, timesPerWeek \in TimesChoices,
          stakeToken \in TokenChoices, stakeAmount \in StakeChoices,
          maxSlots \in SlotChoices :
          Commit(createQuest(EvmState, sender, now, startTime, startTime + duration,
                             distanceKm, timesPerWeek, stakeToken, stakeAmount,
                             maxSlots),
                 Call("createQuest", sender, questCounter + 1, <<>>), 0, 0)
    /\ UNCHANGED apiVars
    /\ UNCHANGED medalVars

JoinQuest ==
    /\ ApiQuiet
    /\ MedalQuiet
    /\ \E sender \in Users, q \in QuestIds :
          Commit(joinQuest(EvmState, sender, q, now),
                 Call("joinQuest", sender, q, <<>>), 0, 0)
    /\ UNCHANGED apiVars
    /\ UNCHANGED medalVars

CompleteQuest ==
    /\ ApiQuiet
    /\ MedalQuiet
    /\ \E sender \in OwnerOrNot, q \in QuestIds, winners \in WinnerLists :
          Commit(completeQuest(EvmState, authorizedContracts, sender, q, winners, now),
                 Call("completeQuest", sender, q, winners), 0, 0)
    /\ UNCHANGED apiVars
    /\ UNCHANGED medalVars

CancelQuest ==
    /\ ApiQuiet
    /\ MedalQuiet
    /\ \E sender \in Callers, q \in QuestIds :
          Commit(cancelQuest(EvmState, authorizedContracts, sender, q, now),
                 Call("cancelQuest", sender, q, <<>>), 0, 0)
    /\ UNCHANGED apiVars
    /\ UNCHANGED medalVars

EmergencyUpdateQuestStatus ==
    /\ ApiQuiet
    /\ MedalQuiet
    /\ emergencyCalls < MaxEmergency
    /\ \E sender \in OwnerOrNot, q \in QuestIds, status \in StatusChoices :
          Commit(emergencyUpdateQuestStatus(EvmState, sender, q, status),
                 Call("emergencyUpdateQuestStatus", sender, q, <<>>), 0, 1)
    /\ UNCHANGED apiVars
    /\ UNCHANGED medalVars

\* depositForQuest called directly
DepositForQuest ==
    /\ ApiQuiet
    /\ MedalQuiet
    /\ directCalls < MaxDirect
    /\ \E sender \in DirectCallers, q \in QuestIds, p \in Users, token \in Tokens,
          amount \in DirectAmounts :
          Commit(depositForQuest(EvmState, authorizedContracts, sender, q, p,
                                 token, amount),
                 Call("depositForQuest", sender, q, <<p>>), 1, 0)
    /\ UNCHANGED apiVars
    /\ UNCHANGED medalVars

\* distributeQuestRewards called directly
DistributeQuestRewards ==
    /\ ApiQuiet
    /\ MedalQuiet
    /\ directCalls < MaxDirect
    /\ \E sender \in DirectCallers, q \in QuestIds, token \in Tokens,
          totalAmount \in DirectTotals, winners \in WinnerLists,
          losers \in LoserLists, rates \in RateChoices :
          Commit([distributeQuestRewards(EvmState, authorizedContracts, sender, q,
                                         token, totalAmount, winners, losers,
                                         rates[1], rates[2], rates[3],
                                         Treasury, now)
                    EXCEPT !.losers = losers, !.total = totalAmount],
                 Call("distributeQuestRewards", sender, q, winners), 1, 0)
    /\ UNCHANGED apiVars
    /\ UNCHANGED medalVars

\* refundParticipant called directly
RefundParticipant ==
    /\ ApiQuiet
    /\ MedalQuiet
    /\ directCalls < MaxDirect
    /\ \E sender \in DirectCallers, q \in QuestIds, p \in Users, token \in Tokens,
          amount \in DirectAmounts :
          Commit(refundParticipant(EvmState, authorizedContracts, sender, q, p,
                                   token, amount),
                 Call("refundParticipant", sender, q, <<p>>), 1, 0)
    /\ UNCHANGED apiVars
    /\ UNCHANGED medalVars

\* batchRefundParticipants called directly
BatchRefundParticipants ==
    /\ ApiQuiet
    /\ MedalQuiet
    /\ directCalls < MaxDirect
    /\ \E sender \in DirectCallers, q \in QuestIds, token \in Tokens,
          batch \in BatchChoices :
          Commit(batchRefundParticipants(EvmState, authorizedContracts, sender, q,
                                         batch[1], token, batch[2]),
                 Call("batchRefundParticipants", sender, q, batch[1]), 1, 0)
    /\ UNCHANGED apiVars
    /\ UNCHANGED medalVars

\* _winners of a settlement whose recipients call back
ReenterWinners == {<<"A">>, <<"A", "B">>}

\* the callbacks a transaction may meet: the call made and the transfer of
\* the transaction during which it is made
HookChoices ==
    {[op |-> c[1], sender |-> c[2], q |-> q, list |-> c[3], amount |-> c[4],
      at |-> at, auth |-> authorizedContracts, time |-> now] :
        c \in HookCalls, q \in QuestIds, at \in {1, 2}}

\* refundParticipant paying a recipient that calls back
ReenterRefundParticipant ==
    /\ ApiQuiet
    /\ MedalQuiet
    /\ directCalls < MaxDirect
    /\ \E q \in QuestIds, p \in Users, token \in Tokens,
          amount \in DirectAmounts, h \in HookChoices :
          Commit(refundParticipant([EvmState EXCEPT !.hook = h],
                                   authorizedContracts, Other, q, p, token, amount),
                 Call("refundParticipant", Other, q, <<p>>), 1, 0)
    /\ UNCHANGED apiVars
    /\ UNCHANGED medalVars

\* batchRefundParticipants paying a recipient that calls back
ReenterBatchRefundParticipants ==
    /\ ApiQuiet
    /\ MedalQuiet
    /\ directCalls < MaxDirect
    /\ \E q \in QuestIds, token \in Tokens, batch \in BatchChoices,
          h \in HookChoices :
          Commit(batchRefundParticipants([EvmState EXCEPT !.hook = h],
                                         authorizedContracts, Other, q,
                                         batch[1], token, batch[2]),
                 Call("batchRefundParticipants", Other, q, batch[1]), 1, 0)
    /\ UNCHANGED apiVars
    /\ UNCHANGED medalVars

\* distributeQuestRewards paying a recipient that calls back
ReenterDistributeQuestRewards ==
    /\ ApiQuiet
    /\ MedalQuiet
    /\ directCalls < MaxDirect
    /\ \E q \in QuestIds, token \in Tokens, winners \in ReenterWinners,
          h \in HookChoices :
          Commit([distributeQuestRewards([EvmState EXCEPT !.hook = h],
                                         authorizedContracts, Other, q,
                                         token, 20, winners, <<>>,
                                         defaultSuccessRate, defaultDaoRate,
                                         defaultProtocolFeeRate, Treasury, now)
                    EXCEPT !.total = 20],
                 Call("distributeQuestRewards", Other, q, winners), 1, 0)
    /\ UNCHANGED apiVars
    /\ UNCHANGED medalVars

\* cancelQuest refunding a participant that calls back
ReenterCancelQuest ==
    /\ ApiQuiet
    /\ MedalQuiet
    /\ \E sender \in Callers, q \in QuestIds, h \in HookChoices :
          Commit(cancelQuest([EvmState EXCEPT !.hook = h],
                             authorizedContracts, sender, q, now),
                 Call("cancelQuest", sender, q, <<>>), 0, 0)
    /\ UNCHANGED apiVars
    /\ UNCHANGED medalVars

\* completeQuest paying a recipient that calls back
ReenterCompleteQuest ==
    /\ ApiQuiet
    /\ MedalQuiet
    /\ \E q \in QuestIds, winners \in ReenterWinners, h \in HookChoices :
          Commit(completeQuest([EvmState EXCEPT !.hook = h],
                               authorizedContracts, Owner, q, winners, now),
                 Call("completeQuest", Owner, q, winners), 0, 0)
    /\ UNCHANGED apiVars
    /\ UNCHANGED medalVars

ChainNext ==
    \/ Tick
    \/ CreateQuest
    \/ JoinQuest
    \/ CompleteQuest
    \/ CancelQuest
    \/ EmergencyUpdateQuestStatus
    \/ DepositForQuest
    \/ DistributeQuestRewards
    \/ RefundParticipant
    \/ BatchRefundParticipants

\* ------------------------------------------------------------------ API
\* the "Validate required fields" test of POST /api/quests: a falsy
\* distance_km, times_per_week or max_slots is answered with 400
apiCreateAllowed(distance_km, times_per_week, max_slots) ==
    ~(distance_km = 0 \/ times_per_week = 0 \/ max_slots = 0)

\* the row that POST /api/quests inserts
apiQuestRow(distance_km, times_per_week, stake_amount, max_slots, status) ==
    [distance_km |-> distance_km, times_per_week |-> times_per_week,
     stake_amount |-> stake_amount, max_slots |-> max_slots,
     status |-> IF status = "" THEN "open" ELSE status]

\* POST /api/quests
ApiCreateQuest ==
    /\ ChainQuiet
    /\ MedalQuiet
    /\ Len(dbQuests) < MaxApiQuests
    /\ \E distance_km \in DistanceChoices, times_per_week \in TimesChoices,
          stake_amount \in ApiStakeChoices, max_slots \in ApiSlotChoices,
          status \in ApiStatusChoices :
          IF apiCreateAllowed(distance_km, times_per_week, max_slots)
          THEN dbQuests' = Append(dbQuests,
                                  apiQuestRow(distance_km, times_per_week,
                                              stake_amount, max_slots, status))
          ELSE UNCHANGED dbQuests
    /\ UNCHANGED <<dbParticipations, reqs>>
    /\ UNCHANGED chainVars
    /\ UNCHANGED medalVars

\* SELECT * FROM participations WHERE quest_id = ? AND user_id = ?
existingParticipation(rows, questId, user_id) ==
    \E row \in rows : row.quest_id = questId /\ row.user_id = user_id

\* table participations without its UNIQUE(quest_id, user_id) constraint
uniqueHolds_NoConstraint(rows, questId, user_id) == TRUE

\* the constraint UNIQUE(quest_id, user_id) of table participations
uniqueHolds(rows, questId, user_id) ==
    ~\E row \in rows : row.quest_id = questId /\ row.user_id = user_id

\* POST /api/quests/:questId/join arrives; the body carries a user_id
ApiJoinStart(r) ==
    /\ ChainQuiet
    /\ MedalQuiet
    /\ reqs[r].pc = "idle"
    /\ \E questId \in 1..MaxApiQuests, user_id \in ApiUsers :
          reqs' = [reqs EXCEPT ![r] = [pc |-> "selectQuest", questId |-> questId,
                                       user_id |-> user_id, status |-> 0]]
    /\ UNCHANGED <<dbQuests, dbParticipations>>
    /\ UNCHANGED chainVars
    /\ UNCHANGED medalVars

\* await SELECT * FROM quests WHERE id = ?; 404 when there is no such row
ApiJoinSelectQuest(r) ==
    /\ ChainQuiet
    /\ MedalQuiet
    /\ reqs[r].pc = "selectQuest"
    /\ reqs' = IF reqs[r].questId \in DOMAIN dbQuests
               THEN [reqs EXCEPT ![r].pc = "selectExisting"]
               ELSE [reqs EXCEPT ![r].pc = "done", ![r].status = 404]
    /\ UNCHANGED <<dbQuests, dbParticipations>>
    /\ UNCHANGED chainVars
    /\ UNCHANGED medalVars

\* await the SELECT of an existing participation; 400 when there is one
ApiJoinSelectExisting(r) ==
    /\ ChainQuiet
    /\ MedalQuiet
    /\ reqs[r].pc = "selectExisting"
    /\ reqs' = IF existingParticipation(dbParticipations, reqs[r].questId,
                                        reqs[r].user_id)
               THEN [reqs EXCEPT ![r].pc = "done", ![r].status = 400]
               ELSE [reqs EXCEPT ![r].pc = "insert"]
    /\ UNCHANGED <<dbQuests, dbParticipations>>
    /\ UNCHANGED chainVars
    /\ UNCHANGED medalVars

\* await INSERT INTO participations; a constraint violation throws and the
\* catch block answers 500, otherwise the handler answers 200
ApiJoinInsert(r) ==
    /\ ChainQuiet
    /\ MedalQuiet
    /\ reqs[r].pc = "insert"
    /\ IF uniqueHolds(dbParticipations, reqs[r].questId, reqs[r].user_id)
       THEN /\ dbParticipations' = dbParticipations \cup
                    {[id |-> r, quest_id |-> reqs[r].questId,
                      user_id |-> reqs[r].user_id, status |-> "active"]}
            /\ reqs' = [reqs EXCEPT ![r].pc = "done", ![r].status = 200]
       ELSE /\ UNCHANGED dbParticipations
            /\ reqs' = [reqs EXCEPT ![r].pc = "done", ![r].status = 500]
    /\ UNCHANGED dbQuests
    /\ UNCHANGED chainVars
    /\ UNCHANGED medalVars

ApiNext ==
    \/ ApiCreateQuest
    \/ \E r \in Reqs : ApiJoinStart(r)
    \/ \E r \in Reqs : ApiJoinSelectQuest(r)
    \/ \E r \in Reqs : ApiJoinSelectExisting(r)
    \/ \E r \in Reqs : ApiJoinInsert(r)

\* -------------------------------------------------------- MedalNFT steps
\* a MedalNFT transaction commits the storage it ends with
MedalCommit(s, r, call) ==
    LET t == afterCall(s, r) IN
    /\ medals' = t.medals
    /\ tokenOwner' = t.tokenOwner
    /\ tokenIdCounter' = t.tokenIdCounter
    /\ userMedals' = t.userMedals
    /\ userMedalCounts' = t.userMedalCounts
    /\ medalLast' = IF r.ok THEN [call EXCEPT !.tokenId = t.tokenIdCounter,
                                               !.nestedOp = r.nestedOp,
                                               !.nested = r.nested,
                                               !.reentered = r.reentered]
                    ELSE medalLast

MintQuestMedal ==
    /\ ChainQuiet
    /\ ApiQuiet
    /\ tokenIdCounter < MaxMedals
    /\ \E sender \in MintSenders, c \in MintChoices :
          MedalCommit(MedalState,
                      mintQuestMedal(MedalState, sender, c[1], c[2], c[4], c[3], c[5]),
                      [op |-> "mintQuestMedal", sender |-> sender,
                       sources |-> <<>>, tokenId |-> 0, nestedOp |-> "none",
                       nested |-> "none", reentered |-> FALSE])
    /\ UNCHANGED chainVars
    /\ UNCHANGED apiVars

UpgradeMedals ==
    /\ ChainQuiet
    /\ ApiQuiet
    /\ tokenIdCounter <= MaxMedals
    /\ \E caller \in UpgradeCallers, sourceTokenIds \in SourceLists :
          MedalCommit(MedalState,
                      upgradeMedals(MedalState, caller, sourceTokenIds),
                      [op |-> "upgradeMedals", sender |-> caller,
                       sources |-> sourceTokenIds, tokenId |-> 0, nestedOp |-> "none",
                       nested |-> "none", reentered |-> FALSE])
    /\ UNCHANGED chainVars
    /\ UNCHANGED apiVars

\* mintQuestMedal to a recipient whose onERC721Received calls back
ReenterMintQuestMedal ==
    /\ ChainQuiet
    /\ ApiQuiet
    /\ tokenIdCounter < MaxMedals
    /\ \E c \in MintChoices, h \in MedalHookChoices :
          MedalCommit(MedalState,
                      mintQuestMedal([MedalState EXCEPT !.hook = h],
                                     Factory, c[1], c[2], c[4], c[3], c[5]),
                      [op |-> "mintQuestMedal", sender |-> Factory,
                       sources |-> <<>>, tokenId |-> 0, nestedOp |-> "none",
                       nested |-> "none", reentered |-> FALSE])
    /\ UNCHANGED chainVars
    /\ UNCHANGED apiVars

\* upgradeMedals by a caller whose onERC721Received calls back
ReenterUpgradeMedals ==
    /\ ChainQuiet
    /\ ApiQuiet
    /\ tokenIdCounter <= MaxMedals
    /\ \E caller \in UpgradeCallers, sourceTokenIds \in SourceLists,
          h \in MedalHookChoices :
          MedalCommit(MedalState,
                      upgradeMedals([MedalState EXCEPT !.hook = h],
                                    caller, sourceTokenIds),
                      [op |-> "upgradeMedals", sender |-> caller,
                       sources |-> sourceTokenIds, tokenId |-> 0, nestedOp |-> "none",
                       nested |-> "none", reentered |-> FALSE])
    /\ UNCHANGED chainVars
    /\ UNCHANGED apiVars

MedalNext ==
    \/ MintQuestMedal
    \/ UpgradeMedals

Next == ChainNext \/ ApiNext \/ MedalNext

Spec == Init /\ [][Next]_vars

\* the API alone
SpecApi == Init /\ [][ApiNext]_vars

\* MedalNFT alone
SpecMedal == Init /\ [][MedalNext]_vars

\* The contracts with recipients that call back: a token whose transfer runs
\* code of the recipient, and medal recipients that are contracts.  The
\* quest is created, joined, funded and moved by the owner as before; every
\* refund, settlement, mint and upgrade meets a callback.
ReentryNext ==
    \/ Tick
    \/ CreateQuest
    \/ JoinQuest
    \/ EmergencyUpdateQuestStatus
    \/ DepositForQuest
    \/ ReenterRefundParticipant
    \/ ReenterBatchRefundParticipants
    \/ ReenterDistributeQuestRewards
    \/ ReenterCancelQuest
    \/ ReenterCompleteQuest
    \/ ReenterMintQuestMedal
    \/ ReenterUpgradeMedals

SpecReentry == Init /\ [][ReentryNext]_vars

\* The quest lifecycle with no owner override and no direct vault call:
\* createQuest, joinQuest, completeQuest, cancelQuest and the passage of time.
\* A transaction that can change the state is eventually mined.
LifeNext ==
    \/ Tick
    \/ CreateQuest
    \/ JoinQuest
    \/ CompleteQuest
    \/ CancelQuest

SpecLife == Init /\ [][LifeNext]_vars /\ WF_vars(LifeNext)

\* ================================================================ claims
Settled(q) == settlements[q].questId # 0
joined(q, a) == isWinner(a, questParticipants[q])
rowsOf(questId) == {row \in dbParticipations : row.quest_id = questId}

\* C1: once distributeQuestRewards has gone through for a quest, no later
\* completeQuest or distributeQuestRewards for that quest goes through, and
\* the stored Settlement of the quest never changes again.
C1_SettlementIdempotent ==
    [][\A q \in QuestIds :
          Settled(q) =>
             /\ settlements'[q] = settlements[q]
             /\ ~(/\ last'.op \in {"completeQuest", "distributeQuestRewards"}
                  /\ last'.q = q
                  /\ tokenBal' # tokenBal)]_vars

\* C2: every quest has participantCount <= maxSlots, and joinQuest on a quest
\* whose participantCount equals maxSlots reverts, whoever calls it.
C2_SlotsRespected ==
    \A q \in QuestIds :
       /\ quests[q].participantCount <= quests[q].maxSlots
       /\ quests[q].participantCount = quests[q].maxSlots =>
             \A a \in Users : ~joinQuest(EvmState, a, q, now).ok

\* a full quest that a further user could join were it not full
C2_Witness ==
    \E q \in QuestIds, a \in Users :
       /\ quests[q].id # 0
       /\ quests[q].status = "Open"
       /\ now < quests[q].startTime
       /\ quests[q].participantCount = quests[q].maxSlots
       /\ ~participations[q][a].isActive
       /\ tokenBal[quests[q].stakeToken][a] >= quests[q].stakeAmount
       /\ ~joinQuest(EvmState, a, q, now).ok

\* C3: the number of participation rows of a quest never exceeds its max_slots.
C3_NoOverbooking ==
    \A questId \in DOMAIN dbQuests :
       Cardinality(rowsOf(questId)) <= dbQuests[questId].max_slots

\* C4: on-chain, joinQuest by an address with an active participation in the
\* quest reverts; off-chain, a (quest, user) pair has at most one participation
\* row and at most one of its join requests is answered with success.
C4_NoDoubleParticipation ==
    /\ \A q \in QuestIds, a \in Users :
          participations[q][a].isActive => ~joinQuest(EvmState, a, q, now).ok
    /\ \A questId \in 1..MaxApiQuests, user_id \in ApiUsers :
          /\ Cardinality({row \in rowsOf(questId) : row.user_id = user_id}) <= 1
          /\ Cardinality({r \in Reqs : /\ reqs[r].questId = questId
                                       /\ reqs[r].user_id = user_id
                                       /\ reqs[r].status = 200}) <= 1

\* two requests of one user for one quest both passed the SELECT; one was
\* answered 200 and the other 500
C4_Witness ==
    \E r1, r2 \in Reqs :
       /\ r1 # r2
       /\ reqs[r1].questId = reqs[r2].questId
       /\ reqs[r1].user_id = reqs[r2].user_id
       /\ reqs[r1].status = 200
       /\ reqs[r2].status = 500

\* C5: when both users have joined an Open quest and the start time has not
\* come, cancelQuest by the creator goes through, pays each of them the stake
\* back, sets the status Cancelled and leaves no escrow record of the quest locked.
C5_CancelRefundsBoth ==
    \A q \in QuestIds :
       (/\ quests[q].id # 0
        /\ quests[q].status = "Open"
        /\ now < quests[q].startTime
        /\ quests[q].participantCount = 2
        /\ \A a \in Users : joined(q, a) /\ participations[q][a].isActive)
       => LET r == cancelQuest(EvmState, authorizedContracts,
                               quests[q].creator, q, now)
          IN  /\ r.ok
              /\ \A a \in Users :
                    r.tokenBal[quests[q].stakeToken][a] =
                       tokenBal[quests[q].stakeToken][a] + quests[q].stakeAmount
              /\ r.quests[q].status = "Cancelled"
              /\ \A a \in Users : ~r.escrowRecords[q][a].isLocked

\* the quest of the settlement example: stake 10, two slots, A and B joined,
\* and the last transaction completed it with winners = [A]
C6_Scenario(q) ==
    /\ last.op = "completeQuest"
    /\ last.q = q
    /\ last.winners = <<"A">>
    /\ quests[q].stakeAmount = 10
    /\ quests[q].maxSlots = 2
    /\ quests[q].participantCount = 2
    /\ \A a \in Users : joined(q, a)

C6_Outcome(q, winnerPool, daoPool, feePool) ==
    /\ settlements[q].questId = q
    /\ settlements[q].totalAmount = 20
    /\ settlements[q].winnersReward = winnerPool
    /\ settlements[q].daoAmount = daoPool
    /\ settlements[q].protocolFee = feePool
    /\ settlements[q].winnersCount = 1
    /\ settlements[q].losersCount = 1
    /\ last.paid = << <<"A", winnerPool>>, <<Treasury, daoPool>>,
                      <<FeeRecipient, feePool>> >>
    /\ \A a \in Users : ~escrowRecords[q][a].isLocked
    /\ quests[q].status = "Completed"

C7_AutoActivation ==
    \A q \in QuestIds :
       (/\ quests[q].status = "Open"
        /\ quests[q].participantCount >= 1
        /\ now >= quests[q].startTime) ~> (quests[q].status = "Active")

\* is the list duplicate-free?
noDuplicates(list) == \A i, j \in 1..Len(list) : list[i] = list[j] => i = j
listSet(list) == {list[i] : i \in 1..Len(list)}

\* C8: after createQuest, joinQuest and the passage of time only, once the end
\* time has come the owner's completeQuest(winners) goes through: the losers
\* are the participants not among the winners, totalStaked is
\* participantCount * stakeAmount and the quest ends Completed.
C8_CompleteAfterEnd ==
    \A q \in QuestIds, winners \in WinnerLists :
       (/\ quests[q].id # 0
        /\ quests[q].participantCount >= 1
        /\ now >= quests[q].endTime
        /\ noDuplicates(winners)
        /\ \A a \in listSet(winners) : joined(q, a))
       => LET r == completeQuest(EvmState, authorizedContracts, Owner, q,
                                 winners, now)
          IN  /\ r.ok
              /\ listSet(r.losers) = listSet(questParticipants[q]) \ listSet(winners)
              /\ r.total = quests[q].participantCount * quests[q].stakeAmount
              /\ r.quests[q].status = "Completed"

\* C9: completeQuest reverts whenever the current time is before the quest's
\* endTime or the quest is not Active, whoever calls it with whatever winners.
C9_CompleteRejected ==
    \A q \in QuestIds, sender \in OwnerOrNot, winners \in WinnerLists :
       (now < quests[q].endTime \/ quests[q].status # "Active")
       => ~completeQuest(EvmState, authorizedContracts, sender, q, winners, now).ok

\* an Active quest with a participant whose end time has not come: the time
\* check alone rejects the owner's completeQuest
C9_Witness ==
    \E q \in QuestIds :
       /\ quests[q].id # 0
       /\ quests[q].status = "Active"
       /\ quests[q].participantCount >= 1
       /\ now < quests[q].endTime
       /\ ~completeQuest(EvmState, authorizedContracts, Owner, q, <<>>, now).ok

\* C10: cancelQuest goes through only when the caller is the quest's creator
\* or the owner, the quest is Open and the start time has not come.
C10_CancelOnlyWhenAllowed ==
    \A q \in QuestIds, sender \in Callers :
       cancelQuest(EvmState, authorizedContracts, sender, q, now).ok
       => /\ (sender = quests[q].creator \/ sender = Owner)
          /\ quests[q].status = "Open"
          /\ now < quests[q].startTime

\* an Open quest before its start that its creator may cancel and B, who is
\* neither creator nor owner, may not
C10_Witness ==
    \E q \in QuestIds :
       /\ quests[q].id # 0
       /\ quests[q].status = "Open"
       /\ now < quests[q].startTime
       /\ quests[q].creator # "B"
       /\ cancelQuest(EvmState, authorizedContracts, quests[q].creator, q, now).ok
       /\ ~cancelQuest(EvmState, authorizedContracts, "B", q, now).ok

\* C11: every status change of a quest is Draft->Open, Open->Active,
\* Active->Completed or Open->Cancelled; Completed and Cancelled are terminal
\* and no operation moves a quest back.
C11_StatusMachine ==
    [][\A q \in QuestIds :
          quests'[q].status # quests[q].status =>
             <<quests[q].status, quests'[q].status>> \in
                {<<"Draft", "Open">>, <<"Open", "Active">>,
                 <<"Active", "Completed">>, <<"Open", "Cancelled">>}]_vars

\* C12: joinQuest reverts on a quest that is not Open or whose start time has
\* come, and no participation row exists for an API quest that is not open.
C12_JoinOnlyWhenOpen ==
    /\ \A q \in QuestIds, a \in Users :
          (quests[q].status # "Open" \/ now >= quests[q].startTime)
          => ~joinQuest(EvmState, a, q, now).ok
    /\ \A row \in dbParticipations : dbQuests[row.quest_id].status = "open"

\* do the rates sum to 100% with a protocol fee of at most 20%?
ratesValid(successRate, daoRate, protocolFeeRate) ==
    /\ successRate + daoRate + protocolFeeRate = BasisPoints
    /\ protocolFeeRate <= MAX_PROTOCOL_FEE

\* C13: every quest created carries rates that sum to 100% with a fee of at
\* most 20%, and distributeQuestRewards reverts for every authorized caller,
\* amount and list of winners when the rates passed violate either condition.
C13_RatesValidated ==
    /\ \A q \in QuestIds :
          quests[q].id # 0 =>
             ratesValid(quests[q].successRate, quests[q].daoRate,
                        quests[q].protocolFeeRate)
    /\ \A q \in QuestIds, sender \in authorizedContracts, rates \in RateChoices,
          totalAmount \in DirectTotals, winners \in WinnerLists :
          ~ratesValid(rates[1], rates[2], rates[3])
          => ~distributeQuestRewards(EvmState, authorizedContracts, sender, q,
                                     Token, totalAmount, winners, <<>>,
                                     rates[1], rates[2], rates[3],
                                     Treasury, now).ok

\* a funded vault from which a distribute under the default rates would pay,
\* while the same call under each invalid choice of rates reverts
C13_Witness ==
    \E q \in QuestIds :
       /\ quests[q].id # 0
       /\ tokenBal[Token][Vault] >= 10
       /\ distributeQuestRewards(EvmState, authorizedContracts, Other, q, Token,
                                 20, <<>>, <<>>, 8000, 1000, 1000, Treasury, now).ok
       /\ ~distributeQuestRewards(EvmState, authorizedContracts, Other, q, Token,
                                  20, <<>>, <<>>, 8000, 1000, 2000, Treasury, now).ok
       /\ ~distributeQuestRewards(EvmState, authorizedContracts, Other, q, Token,
                                  20, <<>>, <<>>, 7000, 0, 3000, Treasury, now).ok

\* C14: for every token, totalLocked is at most the balance the vault holds.
C14_LockedCovered ==
    \A t \in Tokens : totalLocked[t] <= tokenBal[t][Vault]

\* the sum of the amounts of the locked escrow records of a quest
RECURSIVE lockedSum(_, _)
lockedSum(q, participants) ==
    IF participants = {} THEN 0
    ELSE LET p == CHOOSE x \in participants : TRUE
         IN  (IF escrowRecords[q][p].isLocked THEN escrowRecords[q][p].amount ELSE 0)
             + lockedSum(q, participants \ {p})

\* C15: until a quest is settled, the sum of its locked escrow records is
\* participantCount * stakeAmount; once it is settled the sum is zero.
C15_EscrowMatchesStakes ==
    \A q \in QuestIds :
       quests[q].id # 0 =>
          lockedSum(q, Users) =
             IF Settled(q) THEN 0
             ELSE quests[q].participantCount * quests[q].stakeAmount

\* C16: whenever refundParticipant goes through, the record was locked with
\* at least the amount asked; the record's amount, the participant's balance
\* entry and totalLocked each go down by the amount, and the amount is what
\* the vault pays the participant.
C16_RefundExact ==
    \A sender \in DirectCallers \cup {Factory}, q \in QuestIds, p \in Users,
       amount \in DirectAmounts :
       LET r == refundParticipant(EvmState, authorizedContracts, sender, q, p,
                                  Token, amount)
       IN  r.ok =>
              /\ escrowRecords[q][p].isLocked
              /\ amount <= escrowRecords[q][p].amount
              /\ r.escrowRecords[q][p].amount = escrowRecords[q][p].amount - amount
              /\ r.balances[Token][p] = balances[Token][p] - amount
              /\ r.totalLocked[Token] = totalLocked[Token] - amount
              /\ r.tokenBal[Token][p] = tokenBal[Token][p] + amount
              /\ r.tokenBal[Token][Vault] = tokenBal[Token][Vault] - amount
              /\ r.paid = << <<p, amount>> >>

\* a refund of a positive amount has just gone through and emptied the record
C16_Witness ==
    /\ last.op = "refundParticipant"
    /\ last.paid # <<>>
    /\ last.paid[1][2] > 0
    /\ \E q \in QuestIds, p \in Users :
          /\ last.q = q
          /\ last.winners = <<p>>
          /\ ~escrowRecords[q][p].isLocked
          /\ ~refundParticipant(EvmState, authorizedContracts, Other, q, p,
                                Token, 0).ok

\* the sum of a field of the medals that a list of token ids names
RECURSIVE sumOver(_, _)
sumOver(sourceTokenIds, field) ==
    IF sourceTokenIds = <<>> THEN 0
    ELSE medals[Head(sourceTokenIds)][field] + sumOver(Tail(sourceTokenIds), field)

\* C17: an upgradeMedals that goes through burns exactly the source medals it
\* was given (each existed before and exists no more, every other medal is
\* as it was) and creates exactly one medal, owned by the caller, whose
\* distanceKm and completedSessions are the sums over the sources.
C17_UpgradeBurnsAndSums ==
    \A caller \in UpgradeCallers, sourceTokenIds \in SourceLists :
       LET r == upgradeMedals(MedalState, caller, sourceTokenIds)
           new == tokenIdCounter + 1
       IN  r.ok =>
              /\ noDuplicates(sourceTokenIds)
              /\ \A t \in listSet(sourceTokenIds) :
                    exists(MedalState, t) /\ ~exists(r, t)
              /\ \A t \in TokenIds \ (listSet(sourceTokenIds) \cup {new}) :
                    r.tokenOwner[t] = tokenOwner[t]
              /\ \A t \in TokenIds \ {new} : r.medals[t] = medals[t]
              /\ r.tokenIdCounter = new
              /\ ~exists(MedalState, new)
              /\ r.tokenOwner[new] = caller
              /\ r.medals[new].distanceKm = sumOver(sourceTokenIds, "distanceKm")
              /\ r.medals[new].completedSessions =
                    sumOver(sourceTokenIds, "completedSessions")

\* the example: three Grey medals with 2, 3 and 4 sessions and 6, 9 and 12 km
\* were upgraded to one Special medal of rarity Uncommon with 9 sessions and
\* 27 km, and the three sources exist no more
C17_Witness ==
    /\ medalLast.op = "upgradeMedals"
    /\ Len(medalLast.sources) = 3
    /\ \A t \in listSet(medalLast.sources) :
          /\ medals[t].medalType = "Grey"
          /\ ~exists(MedalState, t)
    /\ {medals[t].completedSessions : t \in listSet(medalLast.sources)} = {2, 3, 4}
    /\ exists(MedalState, medalLast.tokenId)
    /\ medals[medalLast.tokenId].medalType = "Special"
    /\ medals[medalLast.tokenId].rarity = Uncommon
    /\ medals[medalLast.tokenId].completedSessions = 9
    /\ medals[medalLast.tokenId].distanceKm = 27

\* does the list, as the caller gives it, break a precondition of upgradeMedals?
upgradeViolation(caller, sourceTokenIds) ==
    \/ Len(sourceTokenIds) < 3
    \/ \E i \in 1..Len(sourceTokenIds) :
          \/ tokenOwner[sourceTokenIds[i]] # caller
          \/ ~medals[sourceTokenIds[i]].isUpgradeable
          \/ medals[sourceTokenIds[i]].medalType # medals[sourceTokenIds[1]].medalType

\* C18: an upgradeMedals given fewer than 3 sources, a source the caller does
\* not own, a source that is not upgradeable or sources of mixed types
\* fails, and after a failed upgradeMedals all medal state is as before.
C18_UpgradeAtomic ==
    \A caller \in UpgradeCallers, sourceTokenIds \in SourceLists :
       LET r == upgradeMedals(MedalState, caller, sourceTokenIds) IN
       /\ upgradeViolation(caller, sourceTokenIds) => ~r.ok
       /\ ~r.ok => afterCall(MedalState, r) = MedalState

\* an upgrade over existing medals whose first source passed its checks and
\* was burned before a later source, owned by somebody else, failed them
C18_Witness ==
    \E caller \in UpgradeCallers, sourceTokenIds \in SourceLists :
       LET r == upgradeMedals(MedalState, caller, sourceTokenIds) IN
       /\ Len(sourceTokenIds) >= 3
       /\ \A i \in 1..Len(sourceTokenIds) : exists(MedalState, sourceTokenIds[i])
       /\ \E i \in 2..Len(sourceTokenIds) : tokenOwner[sourceTokenIds[i]] # caller
       /\ ~exists(r, sourceTokenIds[1])
       /\ ~r.ok

\* C19: the medal an upgradeMedals has produced has a rarity strictly above
\* the rarity of each of its source medals.
C19_UpgradeRaisesRarity ==
    medalLast.op = "upgradeMedals" =>
       \A t \in listSet(medalLast.sources) :
          medals[medalLast.tokenId].rarity > medals[t].rarity

\* the rarity table of the specification
tableRarity(medalType, completedSessions, totalParticipants) ==
    CASE medalType = "Gold" /\ totalParticipants >= 100 -> Legendary
      [] medalType = "Gold" /\ totalParticipants >= 50 /\ totalParticipants < 100 -> Epic
      [] medalType = "Gold" /\ totalParticipants >= 20 /\ totalParticipants < 50 -> Rare
      [] medalType = "Gold" /\ totalParticipants < 20 -> Uncommon
      [] medalType = "Grey" /\ completedSessions >= 5 -> Uncommon
      [] medalType = "Grey" /\ completedSessions < 5 -> Common
      [] OTHER -> Common

\* C20: _calculateRarity agrees with the rarity table on all inputs up to
\* MaxRarityInput, and every medal that mintQuestMedal minted carries the
\* rarity the table gives for its type, sessions and participants.
C20_RarityTable ==
    /\ tokenIdCounter = 0 =>
          \A medalType \in MedalType, completedSessions \in 0..MaxRarityInput,
             totalParticipants \in 0..MaxRarityInput :
             calculateRarity(medalType, completedSessions, totalParticipants) =
                tableRarity(medalType, completedSessions, totalParticipants)
    /\ \A t \in TokenIds :
          (medals[t].tokenId # 0 /\ medals[t].upgradeLevel = 0) =>
             medals[t].rarity = tableRarity(medals[t].medalType,
                                            medals[t].completedSessions,
                                            medals[t].totalParticipants)

\* minted medals of each kind: a Legendary and an Uncommon Gold, an Uncommon
\* and a Common Grey
C20_Witness ==
    \E g1, g2, y1, y2 \in TokenIds :
       /\ medals[g1].medalType = "Gold" /\ medals[g1].totalParticipants >= 100
       /\ medals[g1].rarity = Legendary
       /\ medals[g2].medalType = "Gold" /\ medals[g2].totalParticipants < 20
       /\ medals[g2].tokenId # 0 /\ medals[g2].rarity = Uncommon
       /\ medals[y1].medalType = "Grey" /\ medals[y1].completedSessions >= 5
       /\ medals[y1].rarity = Uncommon
       /\ medals[y2].medalType = "Grey" /\ medals[y2].completedSessions < 5
       /\ medals[y2].rarity = Common

\* C21: no quest exists with end time <= start time, distance <= 0, times per
\* week <= 0, stake amount <= 0, max slots <= 0 or an unsupported stake token:
\* createQuest reverts on such input and POST /api/quests inserts no such row.
C21_InvalidQuestRejected ==
    /\ \A q \in QuestIds :
          quests[q].id # 0 =>
             /\ quests[q].endTime > quests[q].startTime
             /\ quests[q].distanceKm > 0
             /\ quests[q].timesPerWeek > 0
             /\ quests[q].stakeAmount > 0
             /\ quests[q].maxSlots > 0
             /\ quests[q].stakeToken \in supportedTokens
    /\ \A sender \in Creators, startTime \in StartChoices, duration \in {0, 1},
          distanceKm \in DistanceChoices, timesPerWeek \in TimesChoices,
          stakeToken \in TokenChoices, stakeAmount \in StakeChoices,
          maxSlots \in SlotChoices :
          (\/ startTime + duration <= startTime
           \/ distanceKm <= 0
           \/ timesPerWeek <= 0
           \/ stakeAmount <= 0
           \/ maxSlots <= 0
           \/ stakeToken \notin supportedTokens)
          => ~createQuest(EvmState, sender, now, startTime, startTime + duration,
                          distanceKm, timesPerWeek, stakeToken, stakeAmount,
                          maxSlots).ok
    /\ \A i \in DOMAIN dbQuests :
          /\ dbQuests[i].distance_km > 0
          /\ dbQuests[i].times_per_week > 0
          /\ dbQuests[i].stake_amount > 0
          /\ dbQuests[i].max_slots > 0

\* C22: no escrow operation reports success after it skipped part of the
\* requested work: batchRefundParticipants reverts when one of its entries
\* names a record that is not locked or an amount above the locked amount.
C22_BatchRefundAllOrNothing ==
    \A sender \in DirectCallers, q \in QuestIds, token \in Tokens,
       batch \in BatchChoices :
       (\E i \in 1..Len(batch[1]) :
            \/ i > Len(batch[2])
            \/ ~recordOf(EvmState, q, batch[1][i]).isLocked
            \/ batch[2][i] > recordOf(EvmState, q, batch[1][i]).amount)
       => ~batchRefundParticipants(EvmState, authorizedContracts, sender, q,
                                   batch[1], token, batch[2]).ok

\* C23: a successfully created quest starts in status Open with zero
\* participants and the split 80/10/10 whatever the caller supplies, through
\* QuestFactory.createQuest and through POST /api/quests.
C23_CreatedQuestStartsOpen ==
    /\ questCounter < MaxQuests =>
       \A sender \in Creators, startTime \in StartChoices, duration \in {0, 1},
          distanceKm \in DistanceChoices, timesPerWeek \in TimesChoices,
          stakeToken \in TokenChoices, stakeAmount \in StakeChoices,
          maxSlots \in SlotChoices :
          LET r == createQuest(EvmState, sender, now, startTime,
                               startTime + duration, distanceKm, timesPerWeek,
                               stakeToken, stakeAmount, maxSlots)
          IN  r.ok =>
                 /\ r.questCounter = questCounter + 1
                 /\ r.quests[r.questCounter].status = "Open"
                 /\ r.quests[r.questCounter].participantCount = 0
                 /\ r.quests[r.questCounter].successRate = 8000
                 /\ r.quests[r.questCounter].daoRate = 1000
                 /\ r.quests[r.questCounter].protocolFeeRate = 1000
                 /\ r.questParticipants[r.questCounter] = <<>>
    /\ \A i \in DOMAIN dbQuests : dbQuests[i].status = "open"

\* the sum of the amounts of a list of transfers <<recipient, amount>>
RECURSIVE paidTotal(_)
paidTotal(paid) ==
    IF paid = <<>> THEN 0 ELSE Head(paid)[2] + paidTotal(Tail(paid))

\* the transfers the spec prescribes for a settlement of totalAmount
sharesOf(totalAmount, winners, successRate, daoRate, protocolFeeRate) ==
    LET winnersReward == (totalAmount * successRate) \div 10000
        daoAmount == (totalAmount * daoRate) \div 10000
        protocolFee == (totalAmount * protocolFeeRate) \div 10000
    IN  (IF Len(winners) > 0 /\ winnersReward > 0
         THEN [i \in 1..Len(winners) |->
                  <<winners[i], winnersReward \div Len(winners)>>]
         ELSE <<>>)
        \o (IF daoAmount > 0 THEN << <<Treasury, daoAmount>> >> ELSE <<>>)
        \o (IF protocolFee > 0 THEN << <<FeeRecipient, protocolFee>> >> ELSE <<>>)

\* C25: a settlement of T computes winnersReward, daoAmount and protocolFee
\* as the floors of T times the rate over 10000, pays every winner the floor
\* of winnersReward over the number of winners, pays out at most T in total
\* and leaves the remainder of the integer divisions in the vault.
C25_FloorShares ==
    \A q \in QuestIds, totalAmount \in {3, 7, 20}, winners \in WinnerLists :
       LET rates == <<defaultSuccessRate, defaultDaoRate, defaultProtocolFeeRate>>
           r == distributeQuestRewards(EvmState, authorizedContracts, Other, q,
                                       Token, totalAmount, winners, <<>>,
                                       rates[1], rates[2], rates[3],
                                       Treasury, now)
       IN  r.ok =>
              /\ r.settlements[q].winnersReward = (totalAmount * rates[1]) \div 10000
              /\ r.settlements[q].daoAmount = (totalAmount * rates[2]) \div 10000
              /\ r.settlements[q].protocolFee = (totalAmount * rates[3]) \div 10000
              /\ r.paid = sharesOf(totalAmount, winners, rates[1], rates[2], rates[3])
              /\ paidTotal(r.paid) <= totalAmount
              /\ r.tokenBal[Token][Vault] = tokenBal[Token][Vault] - paidTotal(r.paid)

\* a settlement went through whose divisions left a remainder in the vault:
\* less than the total was paid out, to two winners or of an amount that the
\* rates do not divide
C25_Witness ==
    /\ last.op \in {"completeQuest", "distributeQuestRewards"}
    /\ last.paid = sharesOf(last.total, last.winners, 8000, 1000, 1000)
    /\ Len(last.winners) > 0
    /\ paidTotal(last.paid) < last.total
    /\ (last.total * 8000) % 10000 # 0

\* C26: completeQuest goes through only for a winners list that is a
\* duplicate-free subset of the quest's participants, and then the winners
\* and the computed losers together are exactly the participants, each once;
\* a list with a non-participant, a duplicate or more entries than there are
\* participants reverts.
C26_WinnersPartitionParticipants ==
    \A q \in QuestIds, winners \in WinnerLists :
       LET r == completeQuest(EvmState, authorizedContracts, Owner, q, winners, now)
           allParticipants == questParticipants[q]
       IN  /\ r.ok =>
                /\ noDuplicates(winners)
                /\ listSet(winners) \subseteq listSet(allParticipants)
                /\ noDuplicates(winners \o r.losers)
                /\ listSet(winners \o r.losers) = listSet(allParticipants)
           /\ (\/ ~noDuplicates(winners)
               \/ ~(listSet(winners) \subseteq listSet(allParticipants))
               \/ Len(winners) > Len(allParticipants))
              => ~r.ok

\* the sum of the amounts of the locked escrow records of a token among the
\* records that a set of pairs <<quest, participant>> names
RECURSIVE lockedOf(_, _)
lockedOf(t, pairs) ==
    IF pairs = {} THEN 0
    ELSE LET x == CHOOSE y \in pairs : TRUE
             record == escrowRecords[x[1]][x[2]]
         IN  (IF record.isLocked /\ record.token = t THEN record.amount ELSE 0)
             + lockedOf(t, pairs \ {x})

\* C27: for every token, totalLocked is the sum of the amounts of all locked
\* escrow records of that token, and balances[token][p] is the sum over the
\* locked records of participant p.
C27_LockedIsSumOfRecords ==
    \A t \in Tokens :
       /\ totalLocked[t] = lockedOf(t, QuestIds \X Users)
       /\ \A p \in Users : balances[t][p] = lockedOf(t, QuestIds \X {p})

\* C28: a distributeQuestRewards with an empty winners list that goes through
\* transfers the DAO share and the protocol fee only, so the winners' share
\* stays in the vault; it unlocks the record of every listed participant,
\* takes its amount off totalLocked, and records the settlement.
C28_EmptyWinnersSettlement ==
    \A q \in QuestIds, totalAmount \in {7, 20},
       losers \in {<<>>, <<"B">>, <<"A", "B">>} :
       LET r == distributeQuestRewards(EvmState, authorizedContracts, Other, q,
                                       Token, totalAmount, <<>>, losers,
                                       defaultSuccessRate, defaultDaoRate,
                                       defaultProtocolFeeRate, Treasury, now)
           winnersReward == (totalAmount * defaultSuccessRate) \div 10000
           daoAmount == (totalAmount * defaultDaoRate) \div 10000
           protocolFee == (totalAmount * defaultProtocolFeeRate) \div 10000
       IN  r.ok =>
              /\ \A i \in 1..Len(r.paid) : r.paid[i][1] \in {Treasury, FeeRecipient}
              /\ \A a \in Users : r.tokenBal[Token][a] = tokenBal[Token][a]
              /\ r.tokenBal[Token][Treasury] = tokenBal[Token][Treasury] + daoAmount
              /\ r.tokenBal[Token][FeeRecipient]
                    = tokenBal[Token][FeeRecipient] + protocolFee
              /\ r.tokenBal[Token][Vault]
                    = tokenBal[Token][Vault] - daoAmount - protocolFee
              /\ \A p \in listSet(losers) : ~r.escrowRecords[q][p].isLocked
              /\ r.totalLocked[Token]
                    = totalLocked[Token] - lockedOf(Token, {q} \X listSet(losers))
              /\ r.settlements[q] =
                    [questId |-> q, token |-> Token, totalAmount |-> totalAmount,
                     winnersCount |-> 0, losersCount |-> Len(losers),
                     winnersReward |-> winnersReward, daoAmount |-> daoAmount,
                     protocolFee |-> protocolFee, settledAt |-> now]

\* a settlement without winners went through: the DAO and the fee recipient
\* were paid, the record of the listed loser is unlocked with its amount
\* still written in it, and the winners' share was sent to nobody
C28_Witness ==
    \E q \in QuestIds :
       /\ last.op = "distributeQuestRewards"
       /\ last.q = q
       /\ last.winners = <<>>
       /\ last.losers = <<"B">>
       /\ last.paid = << <<Treasury, 2>>, <<FeeRecipient, 2>> >>
       /\ escrowRecords[q]["B"].amount > 0
       /\ ~escrowRecords[q]["B"].isLocked
       /\ settlements[q].winnersReward = 16
       /\ settlements[q].winnersCount = 0

C30_CountsMatchExistingMedals ==
    \A user \in Users :
       /\ \A i \in 1..Len(userMedals[user]) :
             exists(MedalState, userMedals[user][i])
       /\ \A medalType \in MedalType :
             userMedalCounts[user][medalType]
                = Cardinality({t \in TokenIds :
                                  /\ exists(MedalState, t)
                                  /\ medals[t].recipient = user
                                  /\ medals[t].medalType = medalType})

\* C24: while a settlement, a refund or a mint executes its token transfer or
\* receiver callback, no nested call is let into distributeQuestRewards,
\* refundParticipant, batchRefundParticipants, mintQuestMedal or
\* upgradeMedals, whether made directly or through cancelQuest or
\* completeQuest.
C24_NoReentry ==
    /\ ~last.reentered
    /\ last.nestedOp \in {"refundParticipant", "batchRefundParticipants",
                         "distributeQuestRewards", "completeQuest"}
          => last.nested = "rejected"
    /\ ~medalLast.reentered
    /\ medalLast.nestedOp \in {"mintQuestMedal", "upgradeMedals"}
          => medalLast.nested = "rejected"

\* The recipient of the first transfer of a settlement asked, from its
\* callback, for the refund of its own record, which was locked with 10 at
\* that moment, and was turned away: it was paid its reward only.
C24_Witness ==
    \E q \in QuestIds :
       /\ last.op \in {"distributeQuestRewards", "completeQuest"}
       /\ last.q = q
       /\ last.nestedOp = "refundParticipant"
       /\ last.nested = "rejected"
       /\ last.paid = << <<"A", 16>>, <<Treasury, 2>>, <<FeeRecipient, 2>> >>
       /\ escrowRecords[q]["A"].amount = 10
       /\ ~escrowRecords[q]["A"].isLocked
       /\ Settled(q)

====
